---- MODULE Spec2Model ----
(***************************************************************************)
(* Batch orchestration and language resolution of the Pytesseract web app. *)
(*                                                                         *)
(*   src/app.py                    process_uploaded_files, main            *)
(*   src/utils/text_extraction.py  detect_script, map_script_to_language,  *)
(*                                 validate_language, extract_text         *)
(*                                                                         *)
(* A '+'-joined language string such as "hin+mar" is modelled by the       *)
(* sequence of its codes, <<"hin", "mar">>; an absent 'language' key of    *)
(* the options dict by the empty sequence.  A Python dict is modelled by   *)
(* the sequence of its (key, value) pairs in iteration order.              *)
(***************************************************************************)
EXTENDS Naturals, Sequences, FiniteSets

VARIABLES uploaded_files, options, installed_langs, pc, i, text,
          script_info, lang_arg, progress_bar, all_text, individual_texts,
          errors, outcome, started, declared_language

vars == <<uploaded_files, options, installed_langs, pc, i, text,
          script_info, lang_arg, progress_bar, all_text, individual_texts,
          errors, outcome, started, declared_language>>

----------------------------------------------------------------------------
(* Bounds of the model *)

\* longest batch of uploaded files
MaxFiles == 3

\* names an uploaded file can carry (two uploads may share a name)
Names == {"a", "b"}

\* texts the recognizer can return
Texts == {"t1", "t2"}

\* what the script-detection call can produce: it raises, its output has
\* no parsable "Script" line, or it names a script
OsdOutcomes == {"OSD_RAISES", "OSD_UNPARSABLE", "Latin", "Devanagari",
                "Gujarati", "Gurmukhi", "Cyrillic"}

\* language settings the caller can declare in options ('<<>>': none)
UserLanguages == {<<>>, <<"hin">>, <<"mar">>, <<"eng", "hin">>}

\* sets of language packs a deployment can have installed
InstalledChoices == {{"eng"}, {"eng", "hin", "mar"}}

FileTypes == {"application/pdf", "image/png"}

UploadedFile == [name : Names, type : FileTypes]

RECURSIVE SeqsUpTo(_, _)
SeqsUpTo(S, n) ==
    IF n = 0 THEN {<<>>}
    ELSE LET shorter == SeqsUpTo(S, n - 1)
         IN  shorter \cup {Append(s, x) : s \in {t \in shorter : Len(t) = n - 1}, x \in S}

----------------------------------------------------------------------------
(* Python dict, as the sequence of its (key, value) pairs *)

DictKeys(d) == {d[k][1] : k \in 1..Len(d)}

DictGet(d, key) == d[CHOOSE k \in 1..Len(d) : d[k][1] = key][2]

\* d[key] = value that keeps the first binding of a key (setdefault)
DictSetKeepFirst(d, key, value) ==
    IF key \in DictKeys(d) THEN d ELSE Append(d, <<key, value>>)

\* d[key] = value: an existing key keeps its position and takes the new
\* value, a new key goes to the end
DictSet(d, key, value) ==
    IF key \in DictKeys(d)
    THEN [k \in 1..Len(d) |-> IF d[k][1] = key THEN <<key, value>> ELSE d[k]]
    ELSE Append(d, <<key, value>>)

RECURSIVE DictLiteral(_)
\* a dict display {k1: v1, k2: v2, ...}: pairs are stored left to right, so
\* a repeated key ends with its last value
DictLiteral(pairs) ==
    IF pairs = <<>> THEN <<>>
    ELSE LET n == Len(pairs)
         IN  DictSet(DictLiteral(SubSeq(pairs, 1, n - 1)), pairs[n][1], pairs[n][2])

----------------------------------------------------------------------------
(* src/utils/text_extraction.py *)

\* valid_langs of validate_language: the requested codes that are installed
RECURSIVE ValidLangs(_, _)
ValidLangs(requested_langs, installed) ==
    IF requested_langs = <<>> THEN <<>>
    ELSE LET rest == ValidLangs(Tail(requested_langs), installed)
         IN  IF Head(requested_langs) \in installed
             THEN <<Head(requested_langs)>> \o rest
             ELSE rest

validate_language(lang, installed) ==
    IF ValidLangs(lang, installed) # <<>> THEN ValidLangs(lang, installed)
    ELSE <<"eng">>

\* detect_script: the script named by the detection output, "Latin" when
\* the call raises or the output cannot be parsed
detect_script(osd) ==
    IF osd \in {"OSD_RAISES", "OSD_UNPARSABLE"} THEN "Latin" ELSE osd

script_to_lang ==
    DictLiteral(<< <<"Latin", "eng">>,
                   <<"Devanagari", "hin">>,
                   <<"Gujarati", "guj">>,
                   <<"Gurmukhi", "pan">>,
                   <<"Devanagari", "mar">> >>)

map_script_to_language(script) ==
    IF script \in DictKeys(script_to_lang) THEN DictGet(script_to_lang, script)
    ELSE "eng"

----------------------------------------------------------------------------
(* src/app.py: process_uploaded_files *)

Init ==
    /\ uploaded_files \in SeqsUpTo(UploadedFile, MaxFiles)
    /\ options \in [psm : {3}, language : UserLanguages]
    /\ installed_langs \in InstalledChoices
    /\ pc = "loop"
    /\ i = 0
    /\ text = ""
    /\ script_info = "none"
    /\ lang_arg = <<>>
    /\ progress_bar = [value |-> 0, total |-> 1, shown |-> TRUE]
    /\ all_text = <<>>
    /\ individual_texts = <<>>
    /\ errors = <<>>
    /\ outcome = <<>>
    /\ started = <<>>
    /\ declared_language = options.language

\* for i, uploaded_file in enumerate(uploaded_files): the next file
\* (i counts the files taken so far, the code's i + 1)
LoopNext ==
    /\ pc = "loop"
    /\ i < Len(uploaded_files)
    /\ i' = i + 1
    /\ started' = Append(started, i + 1)
    /\ pc' = "try"
    /\ UNCHANGED <<uploaded_files, options, installed_langs, text, script_info,
                   lang_arg, progress_bar, all_text, individual_texts, errors,
                   outcome, declared_language>>

\* progress_bar.progress((i + 1) / len(uploaded_files))
UpdateProgress ==
    /\ pc = "try"
    /\ progress_bar' = [value |-> i, total |-> Len(uploaded_files), shown |-> TRUE]
    /\ pc' = "body"
    /\ UNCHANGED <<uploaded_files, options, installed_langs, i, text, script_info,
                   lang_arg, all_text, individual_texts, errors, outcome,
                   started, declared_language>>

\* text = process_pdf(uploaded_file, options): returns a text or raises
ProcessPdf ==
    /\ pc = "body"
    /\ uploaded_files[i].type = "application/pdf"
    /\ \/ \E t \in Texts : text' = t /\ pc' = "record"
       \/ text' = text /\ pc' = "except"
    /\ UNCHANGED <<uploaded_files, options, installed_langs, i, script_info,
                   lang_arg, progress_bar, all_text, individual_texts, errors,
                   outcome, started, declared_language>>

\* Image.open ... preprocess_image ... display_processed_image: any of them
\* raises, or the processed image reaches extract_text
PreprocessImage ==
    /\ pc = "body"
    /\ uploaded_files[i].type # "application/pdf"
    /\ pc' \in {"extract", "except"}
    /\ UNCHANGED <<uploaded_files, options, installed_langs, i, text, script_info,
                   lang_arg, progress_bar, all_text, individual_texts, errors,
                   outcome, started, declared_language>>

\* extract_text, first half: detect the script, map it to a language and
\* store the language in options
ResolveLanguage ==
    /\ pc = "extract"
    /\ \E osd \in OsdOutcomes :
         /\ script_info' = osd
         /\ options' = [options EXCEPT
                          !.language = <<map_script_to_language(detect_script(osd))>>]
    /\ pc' = "ocr"
    /\ UNCHANGED <<uploaded_files, installed_langs, i, text, lang_arg,
                   progress_bar, all_text, individual_texts, errors, outcome,
                   started, declared_language>>

\* extract_text, second half: pytesseract.image_to_string(image, config,
\* lang=options['language']) returns a text, or raises and extract_text
\* raises "Text extraction failed"
Recognize ==
    /\ pc = "ocr"
    /\ lang_arg' = options.language
    /\ \/ \E t \in Texts : text' = t /\ pc' = "record"
       \/ text' = text /\ pc' = "except"
    /\ UNCHANGED <<uploaded_files, options, installed_langs, i, script_info,
                   progress_bar, all_text, individual_texts, errors, outcome,
                   started, declared_language>>

\* all_text.append(...); individual_texts[uploaded_file.name] = text
\* (two adjacent statements, neither of which can raise or call out, taken
\* as one step; outcome is the history of finished items)
Record ==
    /\ pc = "record"
    /\ all_text' = Append(all_text, <<uploaded_files[i].name, text>>)
    /\ individual_texts' = DictSet(individual_texts, uploaded_files[i].name, text)
    /\ outcome' = Append(outcome, [status |-> "ok", text |-> text])
    /\ script_info' = "none"
    /\ lang_arg' = <<>>
    /\ pc' = "loop"
    /\ UNCHANGED <<uploaded_files, options, installed_langs, i, text,
                   progress_bar, errors, started, declared_language>>

\* an exception that leaves the loop: the batch ends at the failed item
AbortBatch == "done"

\* where control goes once the except clause has reported the error: the
\* try statement is inside the for loop, so on to the next file
AfterError == "loop"

\* except Exception as e: st.error(f"Error processing {name}: ...")
HandleError ==
    /\ pc = "except"
    /\ errors' = Append(errors, uploaded_files[i].name)
    /\ outcome' = Append(outcome, [status |-> "failed", text |-> ""])
    /\ script_info' = "none"
    /\ lang_arg' = <<>>
    /\ pc' = AfterError
    /\ UNCHANGED <<uploaded_files, options, installed_langs, i, text,
                   progress_bar, all_text, individual_texts, started, declared_language>>

\* progress_bar.empty(); return all_text, individual_texts
Finish ==
    /\ pc = "loop"
    /\ i = Len(uploaded_files)
    /\ progress_bar' = [progress_bar EXCEPT !.shown = FALSE]
    /\ pc' = "done"
    /\ UNCHANGED <<uploaded_files, options, installed_langs, i, text, script_info,
                   lang_arg, all_text, individual_texts, errors, outcome,
                   started, declared_language>>

Next ==
    \/ LoopNext
    \/ UpdateProgress
    \/ ProcessPdf
    \/ PreprocessImage
    \/ ResolveLanguage
    \/ Recognize
    \/ Record
    \/ HandleError
    \/ Finish

Spec == Init /\ [][Next]_vars

\* main: the options of create_sidebar_options carry no 'language' key
InitMain ==
    /\ Init
    /\ options.language = <<>>
    /\ installed_langs = {"eng"}

\* the interpreter runs the function's statements one after another: a step
\* that can be taken is taken
FairSpec == InitMain /\ [][Next]_vars /\ WF_vars(Next)

----------------------------------------------------------------------------
(* Helpers of the properties *)

NumFiles == Len(uploaded_files)

SubmittedNames == {uploaded_files[k].name : k \in 1..NumFiles}

\* items whose processing has finished, with or without an exception
Finished == 1..Len(outcome)

Succeeded == {k \in Finished : outcome[k].status = "ok"}

Failed == {k \in Finished : outcome[k].status = "failed"}

\* positions of the sections of all_text written for a name
SectionsOf(name) == {k \in 1..Len(all_text) : all_text[k][1] = name}

Max(S) == CHOOSE x \in S : \A y \in S : y <= x

\* item k succeeded and produced this (name, text) entry
ProducedBy(entry, k) ==
    /\ k \in Succeeded
    /\ uploaded_files[k].name = entry[1]
    /\ outcome[k].text = entry[2]

\* the entries, read in order, are items in submission order
InSubmissionOrder(entries) ==
    \E f \in [1..Len(entries) -> 1..NumFiles] :
        /\ \A j \in 1..Len(entries) : ProducedBy(entries[j], f[j])
        /\ \A j, k \in 1..Len(entries) : j < k => f[j] < f[k]

RECURSIVE NamesOf(_, _)
\* names of the items of S up to item n, in submission order
NamesOf(S, n) ==
    IF n = 0 THEN <<>>
    ELSE IF n \in S THEN Append(NamesOf(S, n - 1), uploaded_files[n].name)
         ELSE NamesOf(S, n - 1)

DetectionFailed == script_info \in {"OSD_RAISES", "OSD_UNPARSABLE"}

\* the recognizer has been called for the current item, by a caller that
\* declared a language
RecognizerCalled == lang_arg # <<>> /\ declared_language # <<>>

----------------------------------------------------------------------------
(* Properties *)

\* C1: when process_uploaded_files returns, the keys of individual_texts are
\* exactly the submitted names, each once; a failed item has an entry too.
C1_KeysAreSubmittedNames ==
    pc = "done" =>
        /\ DictKeys(individual_texts) = SubmittedNames
        /\ Len(individual_texts) = Cardinality(SubmittedNames)

\* C2: an exception raised for one item is caught for that item only: no
\* item is started twice, the loop terminates, and when it has terminated
\* every submitted item has been started exactly once and has finished.
C2_FailureIsolated ==
    /\ [](\A j, k \in 1..Len(started) : started[j] = started[k] => j = k)
    /\ [](pc = "done" => /\ {started[k] : k \in 1..Len(started)} = 1..NumFiles
                         /\ Len(outcome) = NumFiles)
    /\ <>(pc = "done")

\* C2 witness: the run ended, and a file that failed was followed by others
C2_Witness ==
    /\ pc = "done"
    /\ NumFiles = MaxFiles
    /\ 1 \in Failed
    /\ 2 \in Succeeded
    /\ NumFiles \in Failed

\* C3: the sections of all_text and the entries of individual_texts, read
\* in iteration order, are the items in the order they were submitted, also
\* when two items share a name.
C3_SubmissionOrder ==
    /\ InSubmissionOrder(all_text)
    /\ InSubmissionOrder(individual_texts)

\* C4: extract_text leaves every field of the shared options as it was.
C4_OptionsNeverMutated == [][options' = options]_vars

\* C5: when script detection fails, the recognizer gets the primary
\* language the user declared.
C5_FallbackToDeclared ==
    (RecognizerCalled /\ DetectionFailed) => lang_arg = <<Head(declared_language)>>

\* C6: the detected code is used only when it is installed; a detected
\* script that is not in the table, or whose code is not installed, leaves
\* the recognizer with the declared languages.
C6_DetectedOnlyIfInstalled ==
    (RecognizerCalled /\ ~DetectionFailed) =>
        LET script == detect_script(script_info)
            code == map_script_to_language(script)
        IN  IF script \in DictKeys(script_to_lang) /\ code \in installed_langs
            THEN lang_arg = <<code>>
            ELSE lang_arg = declared_language

\* C7: the fraction last reported to the progress bar is never more than
\* (items finished) / (items submitted).
C7_ProgressAfterCompletion ==
    progress_bar.value * NumFiles <= Len(outcome) * progress_bar.total

\* C8: at the end of the run there is exactly one error message per failed
\* item, naming it, none for an item that succeeded, and the text of every
\* item that succeeded is in all_text and in individual_texts.
C8_FailuresSurfacedSuccessesKept ==
    pc = "done" =>
        /\ errors = NamesOf(Failed, NumFiles)
        /\ \A k \in Succeeded :
              LET name == uploaded_files[k].name
              IN  /\ \E j \in 1..Len(all_text) : all_text[j] = <<name, outcome[k].text>>
                  /\ name \in DictKeys(individual_texts)
                  /\ DictGet(individual_texts, name) = outcome[k].text

\* C9: for a detected Devanagari script the recognizer gets the one of
\* Hindi and Marathi that the user declared.
C9_DevanagariByPreference ==
    (/\ RecognizerCalled
     /\ script_info = "Devanagari"
     /\ Head(declared_language) \in {"hin", "mar"})
        => lang_arg = <<Head(declared_language)>>

====
